---- MODULE Spec2Model ----
(***************************************************************************)
(* Model of blogai.py: the Streamlit page script that suggests a tone for  *)
(* a topic, lets the user pick tone and length, and asks Gemini for a post.*)
(*                                                                         *)
(* Text values are sequences of one-character strings, so that lower(),    *)
(* the substring test "word in topic_lower" and the f-string of the prompt *)
(* are computed character by character.  Opaque texts (API keys, the text  *)
(* Gemini returns) are one-element sequences holding a label.              *)
(***************************************************************************)
EXTENDS Integers, Sequences, FiniteSets, TLC

VARIABLES
    pc,             \* position of the script run
    secrets,        \* st.secrets: the deployment's secret store
    dotenv,         \* contents of the .env file
    environ,        \* os.environ
    api_key,        \* module global api_key
    configured_key, \* the key genai.configure received
    topic,          \* module global topic
    suggested_tone, \* module global suggested_tone
    selected_tone,  \* module global selected_tone
    length_option,  \* module global length_option
    blog_post,      \* module global blog_post
    sent,           \* the messages chat_session.send_message received in this run
    log,            \* the calls of this run, in order
    error           \* the exception that ended this run, if any

vars == <<pc, secrets, dotenv, environ, api_key, configured_key, topic,
          suggested_tone, selected_tone, length_option, blog_post, sent, log, error>>

\* Python's None, and the value of a name that is not bound yet.
None == <<"None">>

(***************************************************************************)
(* str.lower and the substring test                                        *)
(***************************************************************************)
UpperChars == <<"A","B","C","D","E","F","G","H","I","J","K","L","M",
                "N","O","P","Q","R","S","T","U","V","W","X","Y","Z">>

LowerChars == <<"a","b","c","d","e","f","g","h","i","j","k","l","m",
                "n","o","p","q","r","s","t","u","v","w","x","y","z">>

lower_char(c) ==
    IF \E i \in 1..Len(UpperChars) : UpperChars[i] = c
    THEN LowerChars[CHOOSE i \in 1..Len(UpperChars) : UpperChars[i] = c]
    ELSE c

\* s.lower()
lower(s) == [i \in 1..Len(s) |-> lower_char(s[i])]

\* word in s
Contains(s, word) ==
    \E i \in 1..(Len(s) - Len(word) + 1) : SubSeq(s, i, i + Len(word) - 1) = word

\* any(word in topic_lower for word in words)
any_in(topic_lower, words) ==
    \E i \in 1..Len(words) : Contains(topic_lower, words[i])

(***************************************************************************)
(* tone_options                                                            *)
(***************************************************************************)
tone_options == <<
    [key |-> <<"P","r","o","f","e","s","s","i","o","n","a","l">>,
     description |-> "Formal, polished, and authoritative. Ideal for business and corporate topics."],
    [key |-> <<"I","n","f","o","r","m","a","t","i","v","e"," ","&"," ","E","d","u","c","a","t","i","o","n","a","l">>,
     description |-> "Fact-driven and structured to explain concepts clearly."],
    [key |-> <<"C","o","n","v","e","r","s","a","t","i","o","n","a","l"," ","&"," ","F","r","i","e","n","d","l","y">>,
     description |-> "Engaging and approachable, like talking to a friend."],
    [key |-> <<"W","i","t","t","y"," ","&"," ","H","u","m","o","r","o","u","s">>,
     description |-> "Lighthearted with humor, making content fun and digestible."],
    [key |-> <<"P","e","r","s","u","a","s","i","v","e"," ","&"," ","S","a","l","e","s","-","O","r","i","e","n","t","e","d">>,
     description |-> "Focused on convincing the reader, great for marketing and sales."],
    [key |-> <<"I","n","s","p","i","r","a","t","i","o","n","a","l"," ","&"," ","M","o","t","i","v","a","t","i","o","n","a","l">>,
     description |-> "Encouraging and uplifting, perfect for self-improvement and success stories."],
    [key |-> <<"N","a","r","r","a","t","i","v","e"," ","&"," ","S","t","o","r","y","t","e","l","l","i","n","g">>,
     description |-> "Uses anecdotes and storytelling for engagement."],
    [key |-> <<"A","n","a","l","y","t","i","c","a","l"," ","&"," ","D","a","t","a","-","D","r","i","v","e","n">>,
     description |-> "Fact-based with statistics, suitable for business and finance topics."],
    [key |-> <<"C","a","s","u","a","l"," ","&"," ","F","u","n">>,
     description |-> "Light, entertaining, and easy to read."],
    [key |-> <<"T","h","o","u","g","h","t","-","P","r","o","v","o","k","i","n","g"," ","&"," ","P","h","i","l","o","s","o","p","h","i","c","a","l">>,
     description |-> "Encourages deep thinking and reflection."]
  >>

\* list(tone_options.keys())
tone_keys == [i \in 1..Len(tone_options) |-> tone_options[i].key]

\* tone_options[k]: the description, or KeyError
tone_options_get(k) ==
    IF \E i \in 1..Len(tone_options) : tone_options[i].key = k
    THEN [raised |-> "",
          value |-> tone_options[CHOOSE i \in 1..Len(tone_options) : tone_options[i].key = k].description]
    ELSE [raised |-> "KeyError", value |-> ""]

\* list(tone_options.keys()).index(k): the 0-based position, or ValueError
keys_index(k) ==
    IF \E i \in 1..Len(tone_keys) : tone_keys[i] = k
    THEN [raised |-> "",
          value |-> (CHOOSE i \in 1..Len(tone_keys) :
                        tone_keys[i] = k /\ \A j \in 1..(i - 1) : tone_keys[j] # k) - 1]
    ELSE [raised |-> "ValueError", value |-> -1]

(***************************************************************************)
(* suggest_tone                                                            *)
(***************************************************************************)
\* lines 76-97: the if/elif chain over topic_lower
tone_cascade(topic_lower) ==
    IF any_in(topic_lower, <<<<"b","u","s","i","n","e","s","s">>, <<"f","i","n","a","n","c","e">>, <<"c","o","r","p","o","r","a","t","e">>, <<"s","t","r","a","t","e","g","y">>>>)
    THEN <<"P","r","o","f","e","s","s","i","o","n","a","l">>
    ELSE IF any_in(topic_lower, <<<<"s","c","i","e","n","c","e">>, <<"e","d","u","c","a","t","i","o","n">>, <<"l","e","a","r","n","i","n","g">>, <<"t","e","c","h","n","o","l","o","g","y">>>>)
    THEN <<"I","n","f","o","r","m","a","t","i","v","e"," ","&"," ","E","d","u","c","a","t","i","o","n","a","l">>
    ELSE IF any_in(topic_lower, <<<<"p","e","r","s","o","n","a","l">>, <<"l","i","f","e","s","t","y","l","e">>, <<"t","r","a","v","e","l">>, <<"r","e","l","a","t","i","o","n","s","h","i","p","s">>>>)
    THEN <<"C","o","n","v","e","r","s","a","t","i","o","n","a","l"," ","&"," ","F","r","i","e","n","d","l","y">>
    ELSE IF any_in(topic_lower, <<<<"c","o","m","e","d","y">>, <<"f","u","n">>, <<"e","n","t","e","r","t","a","i","n","m","e","n","t">>, <<"j","o","k","e","s">>>>)
    THEN <<"W","i","t","t","y"," ","&"," ","H","u","m","o","r","o","u","s">>
    ELSE IF any_in(topic_lower, <<<<"m","a","r","k","e","t","i","n","g">>, <<"s","a","l","e","s">>, <<"a","d","v","e","r","t","i","s","i","n","g">>, <<"b","r","a","n","d","i","n","g">>>>)
    THEN <<"P","e","r","s","u","a","s","i","v","e"," ","&"," ","S","a","l","e","s","-","O","r","i","e","n","t","e","d">>
    ELSE IF any_in(topic_lower, <<<<"m","o","t","i","v","a","t","i","o","n">>, <<"s","u","c","c","e","s","s">>, <<"s","e","l","f","-","i","m","p","r","o","v","e","m","e","n","t">>, <<"i","n","s","p","i","r","a","t","i","o","n">>>>)
    THEN <<"I","n","s","p","i","r","a","t","i","o","n","a","l"," ","&"," ","M","o","t","i","v","a","t","i","o","n","a","l">>
    ELSE IF any_in(topic_lower, <<<<"h","i","s","t","o","r","y">>, <<"b","i","o","g","r","a","p","h","y">>, <<"s","t","o","r","i","e","s">>, <<"f","i","c","t","i","o","n">>>>)
    THEN <<"N","a","r","r","a","t","i","v","e"," ","&"," ","S","t","o","r","y","t","e","l","l","i","n","g">>
    ELSE IF any_in(topic_lower, <<<<"d","a","t","a">>, <<"a","n","a","l","y","s","i","s">>, <<"r","e","s","e","a","r","c","h">>, <<"s","t","a","t","i","s","t","i","c","s">>>>)
    THEN <<"A","n","a","l","y","t","i","c","a","l"," ","&"," ","D","a","t","a","-","D","r","i","v","e","n">>
    ELSE IF any_in(topic_lower, <<<<"f","u","n">>, <<"c","a","s","u","a","l">>, <<"e","a","s","y">>, <<"r","e","l","a","x","e","d">>>>)
    THEN <<"C","a","s","u","a","l"," ","&"," ","F","u","n">>
    ELSE IF any_in(topic_lower, <<<<"p","h","i","l","o","s","o","p","h","y">>, <<"d","e","e","p">>, <<"t","h","o","u","g","h","t","s">>, <<"e","t","h","i","c","s">>>>)
    THEN <<"T","h","o","u","g","h","t","-","P","r","o","v","o","k","i","n","g"," ","&"," ","P","h","i","l","o","s","o","p","h","i","c","a","l">>
    ELSE <<"P","r","o","f","e","s","s","i","o","n","a","l">>

\* suggest_tone with the test of "fun", "casual", ... moved ahead of the others
suggest_tone_casual_first(t) ==
    LET topic_lower == lower(t) IN
    IF any_in(topic_lower, <<<<"f","u","n">>, <<"c","a","s","u","a","l">>, <<"e","a","s","y">>, <<"r","e","l","a","x","e","d">>>>)
    THEN <<"C","a","s","u","a","l"," ","&"," ","F","u","n">>
    ELSE tone_cascade(topic_lower)

\* suggest_tone comparing the topic as typed, without lower()
suggest_tone_case_sensitive(t) == tone_cascade(t)

\* suggest_tone with one returned label spelt differently from its key
suggest_tone_misspelt(t) ==
    LET tone == tone_cascade(lower(t)) IN
    IF tone = <<"W","i","t","t","y"," ","&"," ","H","u","m","o","r","o","u","s">> THEN <<"W","i","t","t","y"," ","&"," ","H","u","m","o","u","r","o","u","s">> ELSE tone

\* suggest_tone with the elif of line 90 tested before the elif of line 88
suggest_tone_swapped(t) ==
    LET topic_lower == lower(t)
        tone == tone_cascade(topic_lower) IN
    IF tone = <<"N","a","r","r","a","t","i","v","e"," ","&"," ","S","t","o","r","y","t","e","l","l","i","n","g">> /\ any_in(topic_lower, <<<<"d","a","t","a">>, <<"a","n","a","l","y","s","i","s">>, <<"r","e","s","e","a","r","c","h">>, <<"s","t","a","t","i","s","t","i","c","s">>>>)
    THEN <<"A","n","a","l","y","t","i","c","a","l"," ","&"," ","D","a","t","a","-","D","r","i","v","e","n">>
    ELSE tone

suggest_tone(t) ==
    LET topic_lower == lower(t) IN
    tone_cascade(topic_lower)

(***************************************************************************)
(* The prompt of process_gemini_response                                   *)
(***************************************************************************)
Digits == <<"0","1","2","3","4","5","6","7","8","9">>

\* str(n) of an int, as an f-string field formats it
RECURSIVE format_int(_)
format_int(n) ==
    IF n < 0 THEN <<"-">> \o format_int(0 - n)
    ELSE IF n < 10 THEN <<Digits[n + 1]>>
    ELSE format_int(n \div 10) \o <<Digits[(n % 10) + 1]>>

\* modified_prompt with the topic lower-cased like the tone
modified_prompt_topic_lowered(prompt, tone, length) ==
    <<"W","r","i","t","e"," ","a"," ">> \o lower(tone)
    \o <<" ","b","l","o","g"," ","p","o","s","t"," ","a","b","o","u","t"," ","'">> \o lower(prompt)
    \o <<"'"," ","w","i","t","h"," ","a"," ","m","a","x","i","m","u","m"," ","o","f"," ">> \o format_int(length)
    \o <<" ","w","o","r","d","s","."," ">>
    \o <<"E","n","s","u","r","e"," ","a"," ","p","r","o","p","e","r"," ","s","t","r","u","c","t","u","r","e"," ","i","n","c","l","u","d","i","n","g"," ","a","n"," ","i","n","t","r","o","d","u","c","t","i","o","n",","," ","m","a","i","n"," ","s","e","c","t","i","o","n","s",","," ","a","n","d"," ","a"," ","c","o","n","c","l","u","s","i","o","n",".">>

\* modified_prompt = f"Write a {tone.lower()} blog post about '{prompt}' ..."
modified_prompt(prompt, tone, length) ==
    <<"W","r","i","t","e"," ","a"," ">> \o lower(tone)
    \o <<" ","b","l","o","g"," ","p","o","s","t"," ","a","b","o","u","t"," ","'">> \o prompt
    \o <<"'"," ","w","i","t","h"," ","a"," ","m","a","x","i","m","u","m"," ","o","f"," ">> \o format_int(length)
    \o <<" ","w","o","r","d","s","."," ">>
    \o <<"E","n","s","u","r","e"," ","a"," ","p","r","o","p","e","r"," ","s","t","r","u","c","t","u","r","e"," ","i","n","c","l","u","d","i","n","g"," ","a","n"," ","i","n","t","r","o","d","u","c","t","i","o","n",","," ","m","a","i","n"," ","s","e","c","t","i","o","n","s",","," ","a","n","d"," ","a"," ","c","o","n","c","l","u","s","i","o","n",".">>

(***************************************************************************)
(* The deployment: secret store, .env file, process environment            *)
(***************************************************************************)
SecretKey == <<"key-in-st.secrets">>
DotenvKey == <<"key-in-.env">>
EnvKey == <<"key-in-os.environ">>

\* A mapping from names to values that binds GEMINI_API_KEY to v, or nothing.
Mappings(v) == {[n \in S |-> v] : S \in SUBSET {"GEMINI_API_KEY"}}

SecretStores == [accessible : BOOLEAN, entries : Mappings(SecretKey)]

\* st.secrets[name]: the value, or the exception the store raises
secrets_getitem(store, name) ==
    IF ~store.accessible THEN [raised |-> "StreamlitSecretNotFoundError", value |-> None]
    ELSE IF name \notin DOMAIN store.entries THEN [raised |-> "KeyError", value |-> None]
    ELSE [raised |-> "", value |-> store.entries[name]]

\* os.environ.get(name)
environ_get(env, name) == IF name \in DOMAIN env THEN env[name] ELSE None

\* os.environ after load_dotenv(): names of the file are added, none overridden
dotenv_merge(env, file) ==
    [n \in (DOMAIN env) \cup (DOMAIN file) |-> IF n \in DOMAIN env THEN env[n] ELSE file[n]]

(***************************************************************************)
(* What the user and the Gemini service may do                             *)
(***************************************************************************)
PageTopics == { <<>>,
                <<" ">>,
                <<"g","a","r","d","e","n","i","n","g">>,
                <<"F","u","n"," ","F","a","c","t","s">>,
                <<"B","U","S","I","N","E","S","S"," ","f","u","n">>,
                <<"E","a","s","y"," ","D","a","t","a">> }

slider_min_value == 100
slider_max_value == 2000
slider_step == 100

\* the values st.slider can return
SliderValues ==
    {v \in slider_min_value..slider_max_value : (v - slider_min_value) % slider_step = 0}

GeneratedText == <<"text of the response">>

\* send_message raises, or response.text raises, or the text comes back
GeminiFailures == {"network_error", "quota_exceeded", "rejected_key", "malformed_response"}

GeminiOutcomes == {"ok"} \cup GeminiFailures

(***************************************************************************)
(* One run of the page script                                              *)
(***************************************************************************)
Init ==
    /\ pc = "load_dotenv"
    /\ secrets \in SecretStores
    /\ dotenv \in Mappings(DotenvKey)
    /\ environ \in Mappings(EnvKey)
    /\ api_key = None
    /\ configured_key = None
    /\ topic = None
    /\ suggested_tone = None
    /\ selected_tone = None
    /\ length_option = 0
    /\ blog_post = None
    /\ sent = <<>>
    /\ log = <<>>
    /\ error = ""

\* line 9
load_dotenv ==
    /\ pc = "load_dotenv"
    /\ environ' = dotenv_merge(environ, dotenv)
    /\ pc' = "api_key"
    /\ UNCHANGED <<secrets, dotenv, api_key, configured_key, topic, suggested_tone,
                   selected_tone, length_option, blog_post, sent, log, error>>

\* read_api_key without the try/except around the secret lookup
read_api_key_no_fallback ==
    /\ pc = "api_key"
    /\ LET r == secrets_getitem(secrets, "GEMINI_API_KEY") IN
       IF r.raised = ""
       THEN api_key' = r.value /\ pc' = "configure" /\ error' = error
       ELSE api_key' = api_key /\ pc' = "raised" /\ error' = r.raised
    /\ UNCHANGED <<secrets, dotenv, environ, configured_key, topic, suggested_tone,
                   selected_tone, length_option, blog_post, sent, log>>

\* lines 12-16
read_api_key ==
    /\ pc = "api_key"
    /\ LET r == secrets_getitem(secrets, "GEMINI_API_KEY") IN
       api_key' = IF r.raised = "" THEN r.value
                  ELSE environ_get(environ, "GEMINI_API_KEY")
    /\ pc' = "configure"
    /\ UNCHANGED <<secrets, dotenv, environ, configured_key, topic, suggested_tone,
                   selected_tone, length_option, blog_post, sent, log, error>>

\* lines 19-42: genai.configure stores the key; the model object is built
configure ==
    /\ pc = "configure"
    /\ configured_key' = api_key
    /\ pc' = "text_input"
    /\ UNCHANGED <<secrets, dotenv, environ, api_key, topic, suggested_tone,
                   selected_tone, length_option, blog_post, sent, log, error>>

\* line 104
text_input ==
    /\ pc = "text_input"
    /\ \E typed \in PageTopics : topic' = typed
    /\ pc' = "suggest"
    /\ UNCHANGED <<secrets, dotenv, environ, api_key, configured_key, suggested_tone,
                   selected_tone, length_option, blog_post, sent, log, error>>

\* lines 107-113
suggest ==
    /\ pc = "suggest"
    /\ IF topic # <<>>
       THEN LET tone == suggest_tone(topic)
                readout == tone_options_get(tone) IN
            /\ suggested_tone' = tone
            /\ log' = Append(log, "suggest_tone")
            /\ IF readout.raised = ""
               THEN pc' = "selectbox" /\ error' = error
               ELSE pc' = "raised" /\ error' = readout.raised
       ELSE /\ suggested_tone' = <<"P","r","o","f","e","s","s","i","o","n","a","l">>
            /\ pc' = "selectbox"
            /\ UNCHANGED <<log, error>>
    /\ UNCHANGED <<secrets, dotenv, environ, api_key, configured_key, topic,
                   selected_tone, length_option, blog_post, sent>>

\* lines 116-123
selectbox ==
    /\ pc = "selectbox"
    /\ LET index == keys_index(suggested_tone) IN
       IF index.raised = ""
       THEN /\ \E choice \in {index.value} \cup (0..(Len(tone_keys) - 1)) :
                   selected_tone' = tone_keys[choice + 1]
            /\ pc' = "slider"
            /\ error' = error
       ELSE /\ pc' = "raised"
            /\ error' = index.raised
            /\ selected_tone' = selected_tone
    /\ UNCHANGED <<secrets, dotenv, environ, api_key, configured_key, topic,
                   suggested_tone, length_option, blog_post, sent, log>>

\* slider with min_value=0
slider_from_zero ==
    /\ pc = "slider"
    /\ \E v \in {0} \cup SliderValues : length_option' = v
    /\ pc' = "generate"
    /\ UNCHANGED <<secrets, dotenv, environ, api_key, configured_key, topic,
                   suggested_tone, selected_tone, blog_post, sent, log, error>>

\* lines 126-132
slider ==
    /\ pc = "slider"
    /\ \E v \in SliderValues : length_option' = v
    /\ pc' = "generate"
    /\ UNCHANGED <<secrets, dotenv, environ, api_key, configured_key, topic,
                   suggested_tone, selected_tone, blog_post, sent, log, error>>

\* generate without the "if topic:" of line 139
generate_unguarded ==
    /\ pc = "generate"
    /\ pc' = "process_gemini_response"
    /\ UNCHANGED <<secrets, dotenv, environ, api_key, configured_key, topic,
                   suggested_tone, selected_tone, length_option, blog_post, sent, log, error>>

\* lines 139-141: only generate if a topic is provided
generate ==
    /\ pc = "generate"
    /\ pc' = IF topic # <<>> THEN "process_gemini_response" ELSE "done"
    /\ UNCHANGED <<secrets, dotenv, environ, api_key, configured_key, topic,
                   suggested_tone, selected_tone, length_option, blog_post, sent, log, error>>

\* process_gemini_response sending the message again after a failure
process_gemini_response_retry ==
    /\ pc = "process_gemini_response"
    /\ \E first \in GeminiOutcomes, outcome \in GeminiOutcomes :
          LET message == modified_prompt(topic, selected_tone, length_option)
              last == IF first = "ok" THEN first ELSE outcome IN
          /\ sent' = IF first = "ok" THEN Append(sent, message)
                     ELSE sent \o <<message, message>>
          /\ log' = IF first = "ok" THEN log \o <<"send_message", first>>
                    ELSE log \o <<"send_message", first, "send_message", outcome>>
          /\ IF last = "ok"
             THEN blog_post' = GeneratedText /\ pc' = "display" /\ error' = error
             ELSE blog_post' = blog_post /\ pc' = "raised" /\ error' = last
    /\ UNCHANGED <<secrets, dotenv, environ, api_key, configured_key, topic,
                   suggested_tone, selected_tone, length_option>>

\* process_gemini_response catching the failure and returning its text
process_gemini_response_caught ==
    /\ pc = "process_gemini_response"
    /\ sent' = Append(sent, modified_prompt(topic, selected_tone, length_option))
    /\ \E outcome \in GeminiOutcomes :
          /\ log' = log \o <<"send_message", outcome>>
          /\ blog_post' = IF outcome = "ok" THEN GeneratedText ELSE <<outcome>>
          /\ pc' = "display"
          /\ error' = error
    /\ UNCHANGED <<secrets, dotenv, environ, api_key, configured_key, topic,
                   suggested_tone, selected_tone, length_option>>

\* lines 143-168: process_gemini_response(topic, selected_tone, length_option);
\* the log gets the call of send_message and what came of it
process_gemini_response ==
    /\ pc = "process_gemini_response"
    /\ sent' = Append(sent, modified_prompt(topic, selected_tone, length_option))
    /\ \E outcome \in GeminiOutcomes :
          /\ log' = log \o <<"send_message", outcome>>
          /\ IF outcome = "ok"
             THEN blog_post' = GeneratedText /\ pc' = "display" /\ error' = error
             ELSE blog_post' = blog_post /\ pc' = "raised" /\ error' = outcome
    /\ UNCHANGED <<secrets, dotenv, environ, api_key, configured_key, topic,
                   suggested_tone, selected_tone, length_option>>

\* line 171
display ==
    /\ pc = "display"
    /\ log' = Append(log, "write_blog_post")
    /\ pc' = "done"
    /\ UNCHANGED <<secrets, dotenv, environ, api_key, configured_key, topic,
                   suggested_tone, selected_tone, length_option, blog_post, sent, error>>

\* A user interaction: Streamlit runs the script again, from the top, in a
\* fresh namespace; the process environment is kept.
rerun ==
    /\ pc \in {"done", "raised"}
    /\ pc' = "load_dotenv"
    /\ api_key' = None
    /\ configured_key' = None
    /\ topic' = None
    /\ suggested_tone' = None
    /\ selected_tone' = None
    /\ length_option' = 0
    /\ blog_post' = None
    /\ sent' = <<>>
    /\ log' = <<>>
    /\ error' = ""
    /\ UNCHANGED <<secrets, dotenv, environ>>

Next ==
    \/ load_dotenv
    \/ read_api_key
    \/ configure
    \/ text_input
    \/ suggest
    \/ selectbox
    \/ slider
    \/ generate
    \/ process_gemini_response
    \/ display
    \/ rerun

Spec == Init /\ [][Next]_vars

(***************************************************************************)
(* suggest_tone applied to a bounded set of topics                         *)
(***************************************************************************)
MaxTokens == 2

\* two or three keywords of each branch of suggest_tone, as written
Keywords ==
    { <<"b","u","s","i","n","e","s","s">>, <<"s","t","r","a","t","e","g","y">>,
      <<"s","c","i","e","n","c","e">>, <<"t","e","c","h","n","o","l","o","g","y">>,
      <<"p","e","r","s","o","n","a","l">>, <<"t","r","a","v","e","l">>,
      <<"c","o","m","e","d","y">>, <<"f","u","n">>, <<"j","o","k","e","s">>,
      <<"m","a","r","k","e","t","i","n","g">>, <<"s","a","l","e","s">>,
      <<"s","u","c","c","e","s","s">>, <<"s","e","l","f","-","i","m","p","r","o","v","e","m","e","n","t">>,
      <<"h","i","s","t","o","r","y">>, <<"s","t","o","r","i","e","s">>,
      <<"d","a","t","a">>, <<"r","e","s","e","a","r","c","h">>,
      <<"c","a","s","u","a","l">>, <<"e","a","s","y">>,
      <<"p","h","i","l","o","s","o","p","h","y">>, <<"d","e","e","p">> }

\* the keywords, some of them in other letter cases or cut in two, and fillers
ToneTokens ==
    Keywords \cup { <<"B","u","s","i","n","e","s","s">>, <<"F","U","N">>, <<"E","a","s","y">>, <<"f","u">>,
                    <<"n"," ","f","a","c","t","s">>, <<"x","y","z","a","b","c">>, <<" ","a","n","d"," ">> }

RECURSIVE Concat(_)
Concat(parts) == IF parts = <<>> THEN <<>> ELSE Head(parts) \o Concat(Tail(parts))

\* the other keywords of suggest_tone, as written
OtherKeywords ==
    { <<"f","i","n","a","n","c","e">>, <<"c","o","r","p","o","r","a","t","e">>, <<"e","d","u","c","a","t","i","o","n">>, <<"l","e","a","r","n","i","n","g">>,
      <<"l","i","f","e","s","t","y","l","e">>, <<"r","e","l","a","t","i","o","n","s","h","i","p","s">>, <<"e","n","t","e","r","t","a","i","n","m","e","n","t">>,
      <<"a","d","v","e","r","t","i","s","i","n","g">>, <<"b","r","a","n","d","i","n","g">>, <<"m","o","t","i","v","a","t","i","o","n">>, <<"i","n","s","p","i","r","a","t","i","o","n">>,
      <<"b","i","o","g","r","a","p","h","y">>, <<"f","i","c","t","i","o","n">>, <<"a","n","a","l","y","s","i","s">>, <<"s","t","a","t","i","s","t","i","c","s">>,
      <<"r","e","l","a","x","e","d">>, <<"t","h","o","u","g","h","t","s">>, <<"e","t","h","i","c","s">> }

\* the topics made of at most MaxTokens tokens, the empty topic included, and
\* each remaining keyword alone and after "fun "
ToneTopics ==
    {Concat(parts) : parts \in UNION {[1..n -> ToneTokens] : n \in 0..MaxTokens}}
    \cup OtherKeywords
    \cup {<<"f","u","n"," ">> \o k : k \in OtherKeywords}

InitTone ==
    /\ pc = "call_suggest_tone"
    /\ topic \in ToneTopics
    /\ secrets = [accessible |-> FALSE, entries |-> <<>>]
    /\ dotenv = <<>>
    /\ environ = <<>>
    /\ api_key = None
    /\ configured_key = None
    /\ suggested_tone = None
    /\ selected_tone = None
    /\ length_option = 0
    /\ blog_post = None
    /\ sent = <<>>
    /\ log = <<>>
    /\ error = ""

\* suggested_tone = suggest_tone(topic), line 109, for any topic
call_suggest_tone ==
    /\ pc = "call_suggest_tone"
    /\ suggested_tone' = suggest_tone(topic)
    /\ log' = Append(log, "suggest_tone")
    /\ pc' = "returned"
    /\ UNCHANGED <<secrets, dotenv, environ, api_key, configured_key, topic,
                   selected_tone, length_option, blog_post, sent, error>>

NextTone == call_suggest_tone

SpecTone == InitTone /\ [][NextTone]_vars

(***************************************************************************)
(* The keyword table of the specification, and first-match over it         *)
(***************************************************************************)
KeywordGroups == <<
    [tone |-> <<"P","r","o","f","e","s","s","i","o","n","a","l">>,
     keywords |-> {<<"b","u","s","i","n","e","s","s">>,
                  <<"f","i","n","a","n","c","e">>,
                  <<"c","o","r","p","o","r","a","t","e">>,
                  <<"s","t","r","a","t","e","g","y">>}],
    [tone |-> <<"I","n","f","o","r","m","a","t","i","v","e"," ","&"," ","E","d","u","c","a","t","i","o","n","a","l">>,
     keywords |-> {<<"s","c","i","e","n","c","e">>,
                  <<"e","d","u","c","a","t","i","o","n">>,
                  <<"l","e","a","r","n","i","n","g">>,
                  <<"t","e","c","h","n","o","l","o","g","y">>}],
    [tone |-> <<"C","o","n","v","e","r","s","a","t","i","o","n","a","l"," ","&"," ","F","r","i","e","n","d","l","y">>,
     keywords |-> {<<"p","e","r","s","o","n","a","l">>,
                  <<"l","i","f","e","s","t","y","l","e">>,
                  <<"t","r","a","v","e","l">>,
                  <<"r","e","l","a","t","i","o","n","s","h","i","p","s">>}],
    [tone |-> <<"W","i","t","t","y"," ","&"," ","H","u","m","o","r","o","u","s">>,
     keywords |-> {<<"c","o","m","e","d","y">>,
                  <<"f","u","n">>,
                  <<"e","n","t","e","r","t","a","i","n","m","e","n","t">>,
                  <<"j","o","k","e","s">>}],
    [tone |-> <<"P","e","r","s","u","a","s","i","v","e"," ","&"," ","S","a","l","e","s","-","O","r","i","e","n","t","e","d">>,
     keywords |-> {<<"m","a","r","k","e","t","i","n","g">>,
                  <<"s","a","l","e","s">>,
                  <<"a","d","v","e","r","t","i","s","i","n","g">>,
                  <<"b","r","a","n","d","i","n","g">>}],
    [tone |-> <<"I","n","s","p","i","r","a","t","i","o","n","a","l"," ","&"," ","M","o","t","i","v","a","t","i","o","n","a","l">>,
     keywords |-> {<<"m","o","t","i","v","a","t","i","o","n">>,
                  <<"s","u","c","c","e","s","s">>,
                  <<"s","e","l","f","-","i","m","p","r","o","v","e","m","e","n","t">>,
                  <<"i","n","s","p","i","r","a","t","i","o","n">>}],
    [tone |-> <<"N","a","r","r","a","t","i","v","e"," ","&"," ","S","t","o","r","y","t","e","l","l","i","n","g">>,
     keywords |-> {<<"h","i","s","t","o","r","y">>,
                  <<"b","i","o","g","r","a","p","h","y">>,
                  <<"s","t","o","r","i","e","s">>,
                  <<"f","i","c","t","i","o","n">>}],
    [tone |-> <<"A","n","a","l","y","t","i","c","a","l"," ","&"," ","D","a","t","a","-","D","r","i","v","e","n">>,
     keywords |-> {<<"d","a","t","a">>,
                  <<"a","n","a","l","y","s","i","s">>,
                  <<"r","e","s","e","a","r","c","h">>,
                  <<"s","t","a","t","i","s","t","i","c","s">>}],
    [tone |-> <<"C","a","s","u","a","l"," ","&"," ","F","u","n">>,
     keywords |-> {<<"f","u","n">>,
                  <<"c","a","s","u","a","l">>,
                  <<"e","a","s","y">>,
                  <<"r","e","l","a","x","e","d">>}],
    [tone |-> <<"T","h","o","u","g","h","t","-","P","r","o","v","o","k","i","n","g"," ","&"," ","P","h","i","l","o","s","o","p","h","i","c","a","l">>,
     keywords |-> {<<"p","h","i","l","o","s","o","p","h","y">>,
                  <<"d","e","e","p">>,
                  <<"t","h","o","u","g","h","t","s">>,
                  <<"e","t","h","i","c","s">>}]
  >>

Professional == <<"P","r","o","f","e","s","s","i","o","n","a","l">>
WittyHumorous == <<"W","i","t","t","y"," ","&"," ","H","u","m","o","r","o","u","s">>
CasualFun == <<"C","a","s","u","a","l"," ","&"," ","F","u","n">>

\* the tone of the first group, in table order, one of whose keywords occurs in
\* the lower-cased topic; Professional when there is none
FirstMatch(t) ==
    LET topic_lower == lower(t)
        hits == {g \in 1..Len(KeywordGroups) :
                    \E k \in KeywordGroups[g].keywords : Contains(topic_lower, k)}
    IN  IF hits = {} THEN Professional
        ELSE KeywordGroups[CHOOSE g \in hits : \A h \in hits : g <= h].tone

\* the groups, by number, one of whose keywords occurs in the lower-cased topic
Hits(t) ==
    LET topic_lower == lower(t) IN
    {g \in 1..Len(KeywordGroups) :
        \E k \in KeywordGroups[g].keywords : Contains(topic_lower, k)}

\* C1: suggest_tone(topic) is the tone of the first keyword group of the table
\* that has a keyword in the lower-cased topic, and "Professional" when no
\* group has one.
C1_FirstMatch ==
    pc = "returned" => suggested_tone = FirstMatch(topic)

\* a topic with keywords of groups 7 and 8 and 9, decided by group 7
C1_Witness ==
    /\ pc = "returned"
    /\ {7, 8} \subseteq Hits(topic)
    /\ \A g \in Hits(topic) : g >= 7
    /\ suggested_tone = KeywordGroups[7].tone

\* C2: suggest_tone returns, for any topic (the empty one included), one value,
\* and it is a key of tone_options, so that tone_options[suggested_tone] and
\* list(tone_options.keys()).index(suggested_tone) do not raise.
C2_TotalAndClosed ==
    /\ pc = "call_suggest_tone" =>
          Cardinality({k \in {tone_options[i].key : i \in 1..Len(tone_options)} :
                          k = suggest_tone(topic)}) = 1
    /\ pc = "returned" =>
          /\ \E i \in 1..Len(tone_options) : tone_options[i].key = suggested_tone
          /\ Len(tone_options) = 10
          /\ tone_options_get(suggested_tone).raised = ""
          /\ keys_index(suggested_tone).raised = ""
          /\ keys_index(suggested_tone).value \in 0..9

\* suggest_tone has returned for the empty topic
C2_Witness ==
    /\ pc = "returned"
    /\ topic = <<>>
    /\ suggested_tone = Professional

Fun == <<"f","u","n">>

\* C3: a topic that contains "fun" in any letter case and no keyword of groups
\* 1-3 gets "Witty & Humorous", and no topic that contains "fun" gets
\* "Casual & Fun".
C3_FunIsWitty ==
    (pc = "returned" /\ Contains(lower(topic), Fun)) =>
        /\ suggested_tone # CasualFun
        /\ (Hits(topic) \cap {1, 2, 3} = {}) => suggested_tone = WittyHumorous

\* "fun" in capitals next to another keyword of group 9, and none of groups 1-3
C3_Witness ==
    /\ pc = "returned"
    /\ Contains(topic, <<"F","U","N">>)
    /\ Contains(topic, <<"c","a","s","u","a","l">>)
    /\ Hits(topic) \cap {1, 2, 3} = {}
    /\ suggested_tone = WittyHumorous

\* C9: a topic whose lower-cased form contains "business" gets "Professional",
\* whatever else it contains.
C9_BusinessIsProfessional ==
    (pc = "returned" /\ Contains(lower(topic), <<"b","u","s","i","n","e","s","s">>)) =>
        suggested_tone = Professional

\* "Business" with a capital, next to a keyword of a later group
C9_Witness ==
    /\ pc = "returned"
    /\ Contains(topic, <<"B","u","s","i","n","e","s","s">>)
    /\ Hits(topic) \ {1} # {}
    /\ suggested_tone = Professional

(***************************************************************************)
(* The page                                                                *)
(***************************************************************************)
Count(s, e) == Cardinality({i \in 1..Len(s) : s[i] = e})

\* the value of a sequence of decimal digits
RECURSIVE DigitsValue(_)
DigitsValue(d) ==
    IF d = <<>> THEN 0
    ELSE 10 * DigitsValue(SubSeq(d, 1, Len(d) - 1))
         + (CHOOSE v \in 0..9 : Digits[v + 1] = d[Len(d)])

PromptHead == <<"W","r","i","t","e"," ","a"," ">>
PromptAbout == <<" ","b","l","o","g"," ","p","o","s","t"," ","a","b","o","u","t"," ","'">>
PromptMax == <<"'"," ","w","i","t","h"," ","a"," ","m","a","x","i","m","u","m"," ","o","f"," ">>
PromptTail == <<" ","w","o","r","d","s","."," ","E","n","s","u","r","e"," ","a"," ","p","r","o","p","e","r"," ","s","t","r","u","c","t","u","r","e"," ","i","n","c","l","u","d","i","n","g"," ","a","n"," ","i","n","t","r","o","d","u","c","t","i","o","n",","," ","m","a","i","n"," ","s","e","c","t","i","o","n","s",","," ","a","n","d"," ","a"," ","c","o","n","c","l","u","s","i","o","n",".">>

\* message is head, the lower-cased tone, the topic as typed, and the decimal
\* digits of max_words, between the fixed pieces of the sentence
IsPrompt(message, t, tone, max_words) ==
    LET before == PromptHead \o lower(tone) \o PromptAbout \o t \o PromptMax
        from == Len(before) + 1
        to == Len(message) - Len(PromptTail)
        field == SubSeq(message, from, to)
    IN  /\ to >= from
        /\ SubSeq(message, 1, Len(before)) = before
        /\ SubSeq(message, to + 1, Len(message)) = PromptTail
        /\ \A i \in 1..Len(field) : \E v \in 0..9 : Digits[v + 1] = field[i]
        /\ field[1] # "0"
        /\ DigitsValue(field) = max_words

GardeningPrompt == <<"W","r","i","t","e"," ","a"," ","c","a","s","u","a","l"," ","&"," ","f","u","n"," ","b","l","o","g"," ","p","o","s","t"," ","a","b","o","u","t"," ","'","g","a","r","d","e","n","i","n","g","'"," ","w","i","t","h"," ","a"," ","m","a","x","i","m","u","m"," ","o","f"," ","3","0","0"," ","w","o","r","d","s","."," ","E","n","s","u","r","e"," ","a"," ","p","r","o","p","e","r"," ","s","t","r","u","c","t","u","r","e"," ","i","n","c","l","u","d","i","n","g"," ","a","n"," ","i","n","t","r","o","d","u","c","t","i","o","n",","," ","m","a","i","n"," ","s","e","c","t","i","o","n","s",","," ","a","n","d"," ","a"," ","c","o","n","c","l","u","s","i","o","n",".">>

\* C4: the message process_gemini_response sends is "Write a " + the tone
\* lower-cased + " blog post about '" + the topic as typed + "' with a maximum
\* of " + max_words + " words. Ensure a proper structure ...", and the one for
\* ("gardening", "Casual & Fun", 300) is the sentence of the specification.
C4_PromptText ==
    \A i \in 1..Len(sent) :
        /\ IsPrompt(sent[i], topic, selected_tone, length_option)
        /\ (topic = <<"g","a","r","d","e","n","i","n","g">> /\ selected_tone = CasualFun /\ length_option = 300)
              => sent[i] = GardeningPrompt

\* a message was sent for a topic with capitals
C4_Witness ==
    /\ Len(sent) = 1
    /\ topic = <<"F","u","n"," ","F","a","c","t","s">>
    /\ selected_tone = CasualFun
    /\ length_option = 2000

\* C5: in a run with an empty topic suggest_tone is not called, the suggested
\* tone is "Professional", no prompt is built, nothing is sent and no post is
\* displayed.
C5_EmptyTopic ==
    topic = <<>> =>
        /\ Count(log, "suggest_tone") = 0
        /\ Count(log, "send_message") = 0
        /\ Count(log, "write_blog_post") = 0
        /\ sent = <<>>
        /\ blog_post = None
        /\ pc \notin {"process_gemini_response", "display", "raised"}
        /\ pc # "suggest" => suggested_tone = Professional

\* a run with an empty topic has ended
C5_Witness ==
    /\ topic = <<>>
    /\ pc = "done"

\* the run is over
RunEnded == pc \in {"done", "raised"}

\* C6, as stated: every run calls suggest_tone exactly once, then, when a topic
\* is present, send_message exactly once.
C6_AsStated ==
    RunEnded =>
        /\ Count(log, "suggest_tone") = 1
        /\ Count(log, "send_message") = (IF topic # <<>> THEN 1 ELSE 0)

\* C6, amended: a run with a topic calls suggest_tone exactly once and then
\* send_message exactly once; a run with an empty topic calls neither; no run
\* calls either more than once, nor send_message before suggest_tone.
C6_CallsPerRun ==
    /\ Count(log, "suggest_tone") <= 1
    /\ Count(log, "send_message") <= 1
    /\ \A i \in 1..Len(log) :
          log[i] = "send_message" => \E j \in 1..(i - 1) : log[j] = "suggest_tone"
    /\ Len(sent) = Count(log, "send_message")
    /\ RunEnded =>
          /\ Count(log, "suggest_tone") = (IF topic # <<>> THEN 1 ELSE 0)
          /\ Count(log, "send_message") = (IF topic # <<>> THEN 1 ELSE 0)

\* a run with a topic has ended after one suggestion and one message
C6_Witness ==
    /\ pc = "done"
    /\ topic # <<>>
    /\ log = <<"suggest_tone", "send_message", "ok", "write_blog_post">>

\* the key the deployment gives: the secret when the store can be read and
\* holds it, else the environment variable, else None
DeploymentKey ==
    IF secrets.accessible /\ "GEMINI_API_KEY" \in DOMAIN secrets.entries
    THEN secrets.entries["GEMINI_API_KEY"]
    ELSE IF "GEMINI_API_KEY" \in DOMAIN environ
    THEN environ["GEMINI_API_KEY"]
    ELSE None

\* C7: genai.configure receives the secret store's GEMINI_API_KEY when the
\* lookup succeeds, and otherwise the GEMINI_API_KEY environment variable (None
\* when unset); the environment variable is not used when the store gives a
\* value, and no run ends on the failed lookup.
C7_ApiKey ==
    /\ pc \notin {"load_dotenv", "api_key"} => api_key = DeploymentKey
    /\ pc \notin {"load_dotenv", "api_key", "configure"} => configured_key = DeploymentKey
    /\ (secrets.accessible /\ "GEMINI_API_KEY" \in DOMAIN secrets.entries
        /\ pc \notin {"load_dotenv", "api_key", "configure"}) => configured_key = SecretKey
    /\ pc = "raised" => error \notin {"KeyError", "StreamlitSecretNotFoundError"}
    /\ pc = "raised" => configured_key = DeploymentKey

\* the store cannot be read and the key of the environment was configured
C7_Witness ==
    /\ pc = "text_input"
    /\ ~secrets.accessible
    /\ configured_key = EnvKey

\* C8: a failed generation call is neither caught nor retried: the run ends
\* with that error after one send_message, and no post is displayed.
C8_FailurePropagates ==
    \A i \in 1..Len(log) :
        log[i] \in GeminiFailures =>
            /\ pc = "raised"
            /\ error = log[i]
            /\ Count(log, "send_message") = 1
            /\ Len(sent) = 1
            /\ Count(log, "write_blog_post") = 0
            /\ blog_post = None

\* the quota was exceeded and the run ended with that error
C8_Witness ==
    /\ pc = "raised"
    /\ error = "quota_exceeded"
    /\ log = <<"suggest_tone", "send_message", "quota_exceeded">>

\* C10: every request that reaches process_gemini_response has a non-empty
\* topic, a tone that is a key of tone_options, and an integer max_words in
\* 100..2000.
C10_RequestWellFormed ==
    (pc = "process_gemini_response" \/ sent # <<>>) =>
        /\ topic # None
        /\ Len(topic) > 0
        /\ \E i \in 1..Len(tone_options) : tone_options[i].key = selected_tone
        /\ length_option \in Int
        /\ length_option >= 100
        /\ length_option <= 2000

\* a request with a tone other than the suggested one and the longest length
C10_Witness ==
    /\ pc = "process_gemini_response"
    /\ selected_tone # suggested_tone
    /\ length_option = 2000
    /\ topic = <<" ">>

====
